---- MODULE Spec2Model ----
(***************************************************************************)
(* Model of run_model.py: device selection, the import-time initialization *)
(* pipeline (initialize_all) and the request-time generate_response.       *)
(*                                                                         *)
(* Python objects are modelled as a small heap: a name (a local of         *)
(* initialize_all, a module global, a Settings slot, a STATE entry) holds  *)
(* a reference ("index_obj", "model_obj", ...) or "unbound"; the contents  *)
(* of the objects that the code reads or writes (the tokenizer's tokens,   *)
(* the model's device/dtype/mode, the config's keys, the engine's fields)  *)
(* are separate variables.                                                 *)
(***************************************************************************)
EXTENDS Naturals, Sequences, FiniteSets, TLC

\* ------------------------------------------------------------------ bounds
MaxCalls == 2          \* generate_response calls started in one behaviour

\* --------------------------------------------------------------- constants
ChunkSize == 1024      \* Settings.chunk_size

Callers == {"t1", "t2"}
None == "None"
Unbound == "unbound"

\* The keys initialize_llm reads from the config mapping.
ConfigKeys == {"context_window", "max_new_tokens", "generate_kwargs", "system_prompt"}

\* Kinds of prompt a caller can pass: an ordinary string, a string longer than
\* the model's input limit (truncation=True cuts it), and a non-string value
\* (the tokenizer raises on it).
Prompts == {"short", "overlong", "nonstring"}

\* The steps of the import, in the order the specification document lists them
\* (the yardstick of the ordering properties, not a part of the program).
Order == <<"device", "index", "model_tokenizer", "embed", "config", "engine", "register">>

VARIABLES
    env,        \* what torch reports now: [cuda, mps]
    disk,       \* the artifacts under ./models (fixed input)
    importPc,   \* position of the module's import
    DEVICE,     \* module global, line 24
    probed,     \* env as get_device saw it (history)
    frame,      \* locals of initialize_all
    tokObj,     \* contents of the tokenizer object
    modelObj,   \* contents of the model object
    cfgObj,     \* keys of the loaded config mapping
    llmObj,     \* fields of the HuggingFaceLLM engine
    Settings,   \* llama_index Settings slots written by this module
    STATE_,     \* module global STATE, line 168: set of <<key, reference>>
    MODEL,      \* module global, line 169
    TOKENIZER,  \* module global, line 170
    trace,      \* steps completed so far (history)
    failed,     \* the step that raised, or None (history)
    pc,         \* per caller: position inside generate_response
    call,       \* per caller: the running call
    ncalls,     \* calls started
    log         \* completed calls (history)

vars == <<env, disk, importPc, DEVICE, probed, frame, tokObj, modelObj, cfgObj,
          llmObj, Settings, STATE_, MODEL, TOKENIZER, trace, failed, pc, call,
          ncalls, log>>

initVars == <<importPc, DEVICE, probed, frame, tokObj, modelObj, cfgObj, llmObj,
              Settings, STATE_, MODEL, TOKENIZER, trace, failed>>
callVars == <<pc, call, ncalls, log>>

\* ------------------------------------------------------------ device

\* A resolver that tests the integrated accelerator first.
get_device_mps_first(e) ==
    IF e.mps THEN "mps" ELSE IF e.cuda THEN "cuda" ELSE "cpu"

\* cuda if available, else mps if available, else cpu
get_device(e) ==
    IF e.cuda THEN "cuda" ELSE IF e.mps THEN "mps" ELSE "cpu"

\* ------------------------------------------------------------ initial state

\* A tokenizer directory: absent, or a tokenizer with or without a pad token
\* and with or without an end-of-sequence token.
TokenizerArtifacts ==
    { [present |-> FALSE, pad_token |-> None, eos_token |-> None] } \cup
    [present : {TRUE}, pad_token : {None, "<pad>"}, eos_token : {None, "</s>"}]

\* llm_config.json: absent, not JSON, or a JSON object with some of the keys.
ConfigArtifacts ==
    { [form |-> "missing", keys |-> {}], [form |-> "malformed", keys |-> {}] } \cup
    [form : {"object"}, keys : SUBSET ConfigKeys]

NoCall == [prompt |-> None, seq |-> 0, model |-> Unbound, tokenizer |-> Unbound,
           prior |-> {}, inputs_on |-> None]

Init ==
    /\ env \in [cuda : BOOLEAN, mps : BOOLEAN]
    /\ disk \in [index : BOOLEAN, model : BOOLEAN, embed : BOOLEAN,
                 tokenizer : TokenizerArtifacts, config : ConfigArtifacts,
                 engine_ok : BOOLEAN]
    /\ importPc = "get_device"
    /\ DEVICE = Unbound
    /\ probed = [cuda |-> FALSE, mps |-> FALSE]
    /\ frame = [index |-> Unbound, model |-> Unbound, tokenizer |-> Unbound,
                embed_model |-> Unbound, llm_config |-> Unbound, llm |-> Unbound]
    /\ tokObj = [pad_token |-> None, eos_token |-> None]
    /\ modelObj = [device |-> None, dtype |-> None, mode |-> None]
    /\ cfgObj = {}
    /\ llmObj = [model |-> Unbound, tokenizer |-> Unbound, params |-> {}]
    /\ Settings = [embed_model |-> Unbound, llm |-> Unbound, chunk_size |-> 0]
    /\ STATE_ = {}
    /\ MODEL = Unbound
    /\ TOKENIZER = Unbound
    /\ trace = <<>>
    /\ failed = None
    /\ pc = [c \in Callers |-> "idle"]
    /\ call = [c \in Callers |-> NoCall]
    /\ ncalls = 0
    /\ log = {}

\* ------------------------------------------------------------ import pipeline

\* An exception leaves the module's import: nothing catches it, the import
\* fails and no later statement of the module runs.
Raise(step) ==
    /\ importPc' = "crashed"
    /\ failed' = step
    /\ UNCHANGED <<DEVICE, probed, frame, tokObj, modelObj, cfgObj, llmObj,
                   Settings, STATE_, MODEL, TOKENIZER, trace>>

\* DEVICE = get_device()
ResolveDevice ==
    /\ importPc = "get_device"
    /\ DEVICE' = get_device(env)
    /\ probed' = env
    /\ trace' = Append(trace, "device")
    /\ importPc' = "load_index"
    /\ UNCHANGED <<frame, tokObj, modelObj, cfgObj, llmObj, Settings, STATE_,
                   MODEL, TOKENIZER, failed>>
    /\ UNCHANGED <<env, disk, callVars>>

\* A pipeline that loads the embedding model right after the index.
LoadIndexThenEmbedding ==
    /\ importPc = "load_index"
    /\ IF disk.index
         THEN /\ frame' = [frame EXCEPT !.index = "index_obj"]
              /\ trace' = Append(trace, "index")
              /\ importPc' = "load_embedding_model"
              /\ UNCHANGED <<DEVICE, probed, tokObj, modelObj, cfgObj, llmObj,
                             Settings, STATE_, MODEL, TOKENIZER, failed>>
         ELSE Raise("index")
    /\ UNCHANGED <<env, disk, callVars>>

\* index = load_index()
LoadIndex ==
    /\ importPc = "load_index"
    /\ IF disk.index
         THEN /\ frame' = [frame EXCEPT !.index = "index_obj"]
              /\ trace' = Append(trace, "index")
              /\ importPc' = "load_model_and_tokenizer"
              /\ UNCHANGED <<DEVICE, probed, tokObj, modelObj, cfgObj, llmObj,
                             Settings, STATE_, MODEL, TOKENIZER, failed>>
         ELSE Raise("index")
    /\ UNCHANGED <<env, disk, callVars>>

\* if tokenizer.pad_token is None: tokenizer.pad_token = tokenizer.eos_token
PadTokenAfterLoad(art) ==
    IF art.pad_token = None THEN art.eos_token ELSE art.pad_token

\* torch_dtype=torch.float16 if DEVICE.type != "cpu" else torch.float32
TorchDtype(device) ==
    IF device # "cpu" THEN "float16" ELSE "float32"

\* model, tokenizer = load_model_and_tokenizer()
LoadModelAndTokenizer ==
    /\ importPc = "load_model_and_tokenizer"
    /\ IF disk.tokenizer.present /\ disk.model
         THEN /\ tokObj' = [pad_token |-> PadTokenAfterLoad(disk.tokenizer),
                            eos_token |-> disk.tokenizer.eos_token]
              /\ modelObj' = [device |-> DEVICE, dtype |-> TorchDtype(DEVICE),
                              mode |-> "eval"]
              /\ frame' = [frame EXCEPT !.model = "model_obj",
                                        !.tokenizer = "tokenizer_obj"]
              /\ trace' = Append(trace, "model_tokenizer")
              /\ importPc' = "load_embedding_model"
              /\ UNCHANGED <<DEVICE, probed, cfgObj, llmObj, Settings, STATE_,
                             MODEL, TOKENIZER, failed>>
         ELSE Raise("model_tokenizer")
    /\ UNCHANGED <<env, disk, callVars>>

\* embed_model = load_embedding_model()
LoadEmbeddingModel ==
    /\ importPc = "load_embedding_model"
    /\ IF disk.embed
         THEN /\ frame' = [frame EXCEPT !.embed_model = "embed_obj"]
              /\ trace' = Append(trace, "embed")
              /\ importPc' = "load_llm_config"
              /\ UNCHANGED <<DEVICE, probed, tokObj, modelObj, cfgObj, llmObj,
                             Settings, STATE_, MODEL, TOKENIZER, failed>>
         ELSE Raise("embed")
    /\ UNCHANGED <<env, disk, callVars>>

\* A loader that also validates the keys of the mapping.
LoadLlmConfigRaisesIfKeyMissing(art) ==
    art.form # "object" \/ ~(ConfigKeys \subseteq art.keys)

\* What makes load_llm_config raise: open() or json.load() failing. The
\* mapping is not inspected.
LoadLlmConfigRaises(art) ==
    art.form # "object"

\* llm_config = load_llm_config()
LoadLlmConfig ==
    /\ importPc = "load_llm_config"
    /\ IF ~LoadLlmConfigRaises(disk.config)
         THEN /\ cfgObj' = disk.config.keys
              /\ frame' = [frame EXCEPT !.llm_config = "config_obj"]
              /\ trace' = Append(trace, "config")
              /\ importPc' = "initialize_llm"
              /\ UNCHANGED <<DEVICE, probed, tokObj, modelObj, llmObj,
                             Settings, STATE_, MODEL, TOKENIZER, failed>>
         ELSE Raise("config")
    /\ UNCHANGED <<env, disk, callVars>>

\* llm = initialize_llm(llm_config, model, tokenizer): the four subscripts
\* raise KeyError on a missing key; the constructor can reject the values.
InitializeLlm ==
    /\ importPc = "initialize_llm"
    /\ IF ConfigKeys \subseteq cfgObj /\ disk.engine_ok
         THEN /\ llmObj' = [model |-> frame.model, tokenizer |-> frame.tokenizer,
                            params |-> ConfigKeys]
              /\ frame' = [frame EXCEPT !.llm = "llm_obj"]
              /\ trace' = Append(trace, "engine")
              /\ importPc' = "configure_settings"
              /\ UNCHANGED <<DEVICE, probed, tokObj, modelObj, cfgObj,
                             Settings, STATE_, MODEL, TOKENIZER, failed>>
         ELSE Raise("engine")
    /\ UNCHANGED <<env, disk, callVars>>

\* A registration that publishes the embedding model as soon as it is loaded.
ConfigureSettingsEarly ==
    /\ importPc = "load_llm_config"
    /\ Settings.embed_model = Unbound
    /\ Settings' = [Settings EXCEPT !.embed_model = frame.embed_model,
                                    !.chunk_size = ChunkSize]
    /\ UNCHANGED <<importPc, DEVICE, probed, frame, tokObj, modelObj, cfgObj,
                   llmObj, STATE_, MODEL, TOKENIZER, trace, failed>>
    /\ UNCHANGED <<env, disk, callVars>>

\* configure_settings(embed_model, llm)
ConfigureSettings ==
    /\ importPc = "configure_settings"
    /\ Settings' = [embed_model |-> frame.embed_model, llm |-> frame.llm,
                    chunk_size |-> ChunkSize]
    /\ trace' = Append(trace, "register")
    /\ importPc' = "return"
    /\ UNCHANGED <<DEVICE, probed, frame, tokObj, modelObj, cfgObj, llmObj,
                   STATE_, MODEL, TOKENIZER, failed>>
    /\ UNCHANGED <<env, disk, callVars>>

\* A return value carrying every loaded artifact.
InitializeAllResultFull(f) ==
    { <<"index", f.index>>, <<"model", f.model>>, <<"tokenizer", f.tokenizer>>,
      <<"llm", f.llm>>, <<"embed_model", f.embed_model>>,
      <<"llm_config", f.llm_config>> }

\* return {"index": index, "model": model, "tokenizer": tokenizer, "llm": llm}
InitializeAllResult(f) ==
    { <<"index", f.index>>, <<"model", f.model>>, <<"tokenizer", f.tokenizer>>,
      <<"llm", f.llm>> }

\* STATE = initialize_all()
ReturnState ==
    /\ importPc = "return"
    /\ STATE_' = InitializeAllResult(frame)
    /\ importPc' = "bind_handles"
    /\ UNCHANGED <<DEVICE, probed, frame, tokObj, modelObj, cfgObj, llmObj,
                   Settings, MODEL, TOKENIZER, trace, failed>>
    /\ UNCHANGED <<env, disk, callVars>>

\* STATE[key]
Lookup(d, key) == (CHOOSE kv \in d : kv[1] = key)[2]

Keys(d) == { kv[1] : kv \in d }
Values(d) == { kv[2] : kv \in d }

\* MODEL = STATE["model"]; TOKENIZER = STATE["tokenizer"]
BindHandles ==
    /\ importPc = "bind_handles"
    /\ MODEL' = Lookup(STATE_, "model")
    /\ TOKENIZER' = Lookup(STATE_, "tokenizer")
    /\ importPc' = "imported"
    /\ UNCHANGED <<DEVICE, probed, frame, tokObj, modelObj, cfgObj, llmObj,
                   Settings, STATE_, trace, failed>>
    /\ UNCHANGED <<env, disk, callVars>>

\* The host's accelerators come and go (a driver fault, a device unplugged);
\* torch would report the new availability if it were asked again.
EnvChange ==
    /\ \E e \in [cuda : BOOLEAN, mps : BOOLEAN] :
         /\ e # env
         /\ env' = e
    /\ UNCHANGED <<disk, initVars, callVars>>

\* ------------------------------------------------------------ generate_response

\* tokenizer(prompt, return_tensors="pt", padding=True, truncation=True):
\* raises on a prompt that is not text, and on padding=True when the tokenizer
\* has no pad token; an over-long prompt is truncated, not rejected.
TokenizerRaises(tok, prompt) ==
    prompt = "nonstring" \/ tok.pad_token = None

\* An except clause that catches tokenization errors only.
ExceptValueErrorOnly(c, where) ==
    /\ log' = log \cup { [seq |-> call[c].seq, prompt |-> call[c].prompt,
                          prior |-> call[c].prior,
                          raised_at |-> where,
                          outcome |-> IF where = "tokenize" THEN "returned"
                                                            ELSE "raised",
                          result |-> None] }
    /\ pc' = [pc EXCEPT ![c] = "idle"]
    /\ call' = [call EXCEPT ![c] = NoCall]

\* except Exception as e: log_time(...); return None
\* The errors the steps raise (ValueError and TypeError of the tokenizer,
\* RuntimeError of the backend) all derive from Exception.
Except(c, where) ==
    /\ log' = log \cup { [seq |-> call[c].seq, prompt |-> call[c].prompt,
                          prior |-> call[c].prior,
                          raised_at |-> where, outcome |-> "returned",
                          result |-> None] }
    /\ pc' = [pc EXCEPT ![c] = "idle"]
    /\ call' = [call EXCEPT ![c] = NoCall]

\* A caller that reaches generate_response without waiting for the import.
CallGenerateBeforeInit(c) ==
    /\ pc[c] = "idle"
    /\ ncalls < MaxCalls
    /\ \E p \in Prompts :
         call' = [call EXCEPT ![c] = [prompt |-> p, seq |-> ncalls + 1,
                                      model |-> MODEL, tokenizer |-> TOKENIZER,
                                      prior |-> { e.seq : e \in log },
                                      inputs_on |-> None]]
    /\ ncalls' = ncalls + 1
    /\ pc' = [pc EXCEPT ![c] = "tokenize"]
    /\ UNCHANGED <<env, disk, initVars, log>>

\* A caller that imported the module calls
\* generate_response(MODEL, TOKENIZER, prompt).
CallGenerate(c) ==
    /\ importPc = "imported"
    /\ pc[c] = "idle"
    /\ ncalls < MaxCalls
    /\ \E p \in Prompts :
         call' = [call EXCEPT ![c] = [prompt |-> p, seq |-> ncalls + 1,
                                      model |-> MODEL, tokenizer |-> TOKENIZER,
                                      prior |-> { e.seq : e \in log },
                                      inputs_on |-> None]]
    /\ ncalls' = ncalls + 1
    /\ pc' = [pc EXCEPT ![c] = "tokenize"]
    /\ UNCHANGED <<env, disk, initVars, log>>

\* A tokenizer call that fills in a missing pad token as a side effect.
TokenizerCallSetsPad(tok) ==
    [tok EXCEPT !.pad_token = "<pad>"]

\* The tokenizer object after a __call__: unchanged.
TokenizerCall(tok) == tok

\* inputs = tokenizer(prompt, ...).to(DEVICE)
Tokenize(c) ==
    /\ pc[c] = "tokenize"
    /\ tokObj' = TokenizerCall(tokObj)
    /\ IF TokenizerRaises(tokObj, call[c].prompt)
         THEN Except(c, "tokenize")
         ELSE \E moved \in BOOLEAN :
                IF moved
                  THEN /\ call' = [call EXCEPT ![c].inputs_on = DEVICE]
                       /\ pc' = [pc EXCEPT ![c] = "generate"]
                       /\ UNCHANGED log
                  ELSE Except(c, "to_device")
    /\ UNCHANGED <<env, disk, ncalls, importPc, DEVICE, probed, frame, modelObj,
                   cfgObj, llmObj, Settings, STATE_, MODEL, TOKENIZER, trace,
                   failed>>

\* A single-flight gate: only one caller inside model.generate at a time.
EnterGenerateLocked(c) ==
    /\ pc[c] = "generate"
    /\ \A d \in Callers : pc[d] # "in_generate"
    /\ pc' = [pc EXCEPT ![c] = "in_generate"]
    /\ UNCHANGED <<env, disk, initVars, call, ncalls, log>>

\* output = model.generate(**inputs, ...) is entered
EnterGenerate(c) ==
    /\ pc[c] = "generate"
    /\ pc' = [pc EXCEPT ![c] = "in_generate"]
    /\ UNCHANGED <<env, disk, initVars, call, ncalls, log>>

\* model.generate returns or raises (backend exhaustion, numeric error)
ExitGenerate(c) ==
    /\ pc[c] = "in_generate"
    /\ \E ok \in BOOLEAN :
         IF ok
           THEN /\ pc' = [pc EXCEPT ![c] = "decode"]
                /\ UNCHANGED <<call, log>>
           ELSE Except(c, "generate")
    /\ UNCHANGED <<env, disk, initVars, ncalls>>

\* response = tokenizer.decode(...); return response.strip()
Decode(c) ==
    /\ pc[c] = "decode"
    /\ \E ok \in BOOLEAN :
         IF ok
           THEN /\ log' = log \cup { [seq |-> call[c].seq,
                                      prompt |-> call[c].prompt,
                                      prior |-> call[c].prior,
                                      raised_at |-> None, outcome |-> "returned",
                                      result |-> "text"] }
                /\ pc' = [pc EXCEPT ![c] = "idle"]
                /\ call' = [call EXCEPT ![c] = NoCall]
           ELSE Except(c, "decode")
    /\ UNCHANGED <<env, disk, initVars, ncalls>>

\* ------------------------------------------------------------ specification

Next ==
    \/ ResolveDevice
    \/ LoadIndex
    \/ LoadModelAndTokenizer
    \/ LoadEmbeddingModel
    \/ LoadLlmConfig
    \/ InitializeLlm
    \/ ConfigureSettings
    \/ ReturnState
    \/ BindHandles
    \/ EnvChange
    \/ \E c \in Callers : CallGenerate(c)
    \/ \E c \in Callers : Tokenize(c)
    \/ \E c \in Callers : EnterGenerate(c)
    \/ \E c \in Callers : ExitGenerate(c)
    \/ \E c \in Callers : Decode(c)

Spec == Init /\ [][Next]_vars

\* ------------------------------------------------------------ properties

Steps(t) == { t[i] : i \in DOMAIN t }

IsPrefix(t, u) ==
    /\ Len(t) <= Len(u)
    /\ \A i \in 1..Len(t) : t[i] = u[i]

SettingsWritten ==
    \/ Settings.embed_model # Unbound
    \/ Settings.llm # Unbound
    \/ Settings.chunk_size # 0

\* C1: the Settings slots are written only after the index, the model, the
\* tokenizer, the embedding model and the config have loaded and the engine
\* has been built; when a load or build step fails, no slot has been written
\* and no further step runs (the import has stopped at the failed step).
NoPartialRegistration ==
    /\ SettingsWritten =>
         /\ failed = None
         /\ \A n \in DOMAIN frame : frame[n] # Unbound
         /\ {"index", "model_tokenizer", "embed", "config", "engine"}
                \subseteq Steps(trace)
         /\ llmObj.model = "model_obj" /\ llmObj.tokenizer = "tokenizer_obj"
         /\ Settings = [embed_model |-> "embed_obj", llm |-> "llm_obj",
                        chunk_size |-> ChunkSize]
    /\ failed # None =>
         /\ ~SettingsWritten
         /\ importPc = "crashed"
         /\ Len(trace) < Len(Order) /\ failed = Order[Len(trace) + 1]
         /\ STATE_ = {} /\ MODEL = Unbound /\ TOKENIZER = Unbound

RegisteredAfterFullLoad ==
    /\ Settings.llm = "llm_obj"
    /\ Settings.embed_model = "embed_obj"
    /\ trace = Order

\* C2: the steps complete in the order device, index, model+tokenizer,
\* embedding model, config, engine, register; a step that raises is the one
\* right after the last completed step, and the import position is always
\* the step after the completed ones.
FixedStepOrder ==
    /\ IsPrefix(trace, Order)
    /\ failed # None => Len(trace) < Len(Order) /\ failed = Order[Len(trace) + 1]
    /\ importPc = "load_index" => trace = SubSeq(Order, 1, 1)
    /\ importPc = "load_model_and_tokenizer" => trace = SubSeq(Order, 1, 2)
    /\ importPc = "load_embedding_model" => trace = SubSeq(Order, 1, 3)
    /\ importPc = "load_llm_config" => trace = SubSeq(Order, 1, 4)
    /\ importPc = "initialize_llm" => trace = SubSeq(Order, 1, 5)
    /\ importPc = "configure_settings" => trace = SubSeq(Order, 1, 6)
    /\ importPc \in {"return", "bind_handles", "imported"} => trace = Order

AllStepsRan ==
    trace = Order /\ importPc = "imported"

\* C3: every finished generate_response call returned (none raised); a call
\* in which tokenization, the move to the device, generation or decoding
\* raised returned None; and every call with a prompt the tokenizer rejects
\* returned None, raised in tokenization.
GenerateNeverRaises ==
    \A e \in log :
        /\ e.outcome = "returned"
        /\ e.raised_at # None => e.result = None
        /\ e.raised_at = None => e.result = "text"
        /\ e.prompt = "nonstring" => e.result = None /\ e.raised_at = "tokenize"

RejectedPromptTwice ==
    /\ tokObj.pad_token # None
    /\ \E e1, e2 \in log :
         /\ e1.seq # e2.seq
         /\ e1.prompt = "nonstring" /\ e2.prompt = "nonstring"
         /\ e1.result = None /\ e2.result = None

Resources == <<STATE_, MODEL, TOKENIZER, tokObj, modelObj, llmObj, cfgObj,
               Settings, DEVICE, frame>>

\* C4: no step of a generate_response call (one that moves a caller or adds
\* to the log), failing or not, changes STATE, MODEL, TOKENIZER, the tokenizer's
\* tokens, the model, the engine or the registered Settings.
GenerateLeavesResourcesUnchanged ==
    [][(pc' # pc \/ log' # log) => UNCHANGED Resources]_vars

SuccessAfterFailure ==
    \E e1, e2 \in log :
        /\ e1.result = None
        /\ e1.seq \in e2.prior
        /\ e2.result = "text"

\* C5: a tokenizer loaded from an artifact without a pad token has its pad
\* token equal to its end-of-sequence token, and once the import is complete
\* the tokenizer has a pad token (at every generate_response call).
PadTokenInvariant ==
    /\ (frame.tokenizer # Unbound /\ disk.tokenizer.pad_token = None)
          => tokObj.pad_token = tokObj.eos_token
    /\ importPc = "imported" => tokObj.pad_token # None

ConfigLacksKey ==
    /\ disk.config.form = "object"
    /\ ~(ConfigKeys \subseteq disk.config.keys)

LoadLlmConfigHasRun ==
    "config" \in Steps(trace) \/ failed = "config"

\* C6 as stated: a well-formed config lacking a required key makes
\* load_llm_config itself raise.
MissingKeyFailsInLoader ==
    (ConfigLacksKey /\ LoadLlmConfigHasRun) =>
        /\ failed = "config"
        /\ frame.llm_config = Unbound

\* C6 amended: with a well-formed config lacking a required key,
\* load_llm_config returns the mapping as it is; the import then stops in
\* initialize_llm, before anything is registered.
MissingKeyFailsInInitializeLlm ==
    (ConfigLacksKey /\ LoadLlmConfigHasRun) =>
        /\ "config" \in Steps(trace)
        /\ frame.llm_config = "config_obj"
        /\ cfgObj = disk.config.keys
        /\ importPc \in {"initialize_llm", "crashed"}
        /\ importPc = "crashed" => failed = "engine"
        /\ frame.llm = Unbound
        /\ ~SettingsWritten

MissingMaxNewTokensCrash ==
    /\ disk.config.form = "object"
    /\ disk.config.keys = ConfigKeys \ {"max_new_tokens"}
    /\ frame.llm_config = "config_obj"
    /\ failed = "engine"

\* C7: the registration of globals happens at most once, and every
\* generate_response call with the module's handles, running or finished,
\* lies after the completed import and carries the loaded model and tokenizer.
InitializedOnceBeforeUse ==
    /\ Cardinality({ i \in DOMAIN trace : trace[i] = "register" }) <= 1
    /\ \A c \in Callers :
         pc[c] # "idle" =>
            /\ importPc = "imported"
            /\ trace = Order
            /\ call[c].model = "model_obj"
            /\ call[c].tokenizer = "tokenizer_obj"
    /\ (log # {} \/ ncalls > 0) => importPc = "imported"

CallAfterImport ==
    /\ importPc = "imported"
    /\ \E c \in Callers : pc[c] = "in_generate"
    /\ log # {}

\* C8 as stated: STATE holds the index, the embedding model, the generation
\* model, the tokenizer, the config and the engine.
StateIsFullBundle ==
    STATE_ # {} =>
        {"index_obj", "embed_obj", "model_obj", "tokenizer_obj", "config_obj",
         "llm_obj"} \subseteq Values(STATE_)

\* C8 amended: STATE holds exactly the index, the generation model, the
\* tokenizer and the engine, under the keys index, model, tokenizer, llm; the
\* embedding model and the config are not in it.
StateIsIndexModelTokenizerLlm ==
    importPc \in {"bind_handles", "imported"} =>
        /\ Keys(STATE_) = {"index", "model", "tokenizer", "llm"}
        /\ Cardinality(STATE_) = 4
        /\ Lookup(STATE_, "index") = "index_obj"
        /\ Lookup(STATE_, "model") = "model_obj"
        /\ Lookup(STATE_, "tokenizer") = "tokenizer_obj"
        /\ Lookup(STATE_, "llm") = "llm_obj"
        /\ "embed_obj" \notin Values(STATE_)
        /\ "config_obj" \notin Values(STATE_)

StateReturned ==
    importPc = "imported" /\ STATE_ # {} /\ MODEL = "model_obj"

\* C9: DEVICE is cuda whenever cuda was available, mps when only mps was,
\* cpu when neither was; resolving never fails; and the one value chosen at
\* import is the device of the model and of every call's inputs, whatever
\* the host reports later.
DevicePriority ==
    /\ failed # "device"
    /\ importPc # "get_device" =>
         /\ probed.cuda => DEVICE = "cuda"
         /\ (~probed.cuda /\ probed.mps) => DEVICE = "mps"
         /\ (~probed.cuda /\ ~probed.mps) => DEVICE = "cpu"
    /\ frame.model # Unbound => modelObj.device = DEVICE
    /\ \A c \in Callers : call[c].inputs_on \in {None, modelObj.device}

CudaChosenOverMps ==
    /\ probed.cuda /\ probed.mps
    /\ DEVICE = "cuda"
    /\ ~env.cuda
    /\ \E c \in Callers : call[c].inputs_on = "cuda"

\* C10: a caller that is about to enter model.generate can always enter it,
\* whatever the other callers are doing: nothing gates the generation step.
NoAdmissionGate ==
    \A c \in Callers : pc[c] = "generate" => ENABLED EnterGenerate(c)

BothInsideGenerate ==
    \A c \in Callers : pc[c] = "in_generate" /\ call[c].model = MODEL

====
